---- MODULE Spec2Model ----
(***************************************************************************)
(* Model of the card engine of c_cards (src/cards.c, src/cards.h): the     *)
(* deck (deck_gen, deck_size, deck_shuffle, deal), the hand (a linked list *)
(* of cards, newest card first), the scoring function blackjack_score,     *)
(* both branches of blackjack_turn and the round played by blackjack().    *)
(***************************************************************************)
EXTENDS Integers, Sequences, FiniteSets, TLC

VARIABLES
    deck,       \* "NULL" before deck_gen succeeds, "DECK" afterwards
    cards,      \* deck->cards: array indexed 0..tail
    head,       \* deck->head
    tail,       \* deck->tail
    hand,       \* *hand: the linked list as a sequence, first node first
    seed,       \* state of the rand() generator
    op,         \* name of the function called last
    ret,        \* the value it returned (0 while blackjack_turn is running)
    errno,      \* what that call stored in errno ("0" if it stored nothing)
    pc,         \* position inside blackjack_turn: "idle" outside it, "loop"
                \* at the dealer's while, "prompt" at the player's do-while
    score,      \* local variable score of blackjack_turn
    start,      \* what blackjack_turn saw on entry (score, head, cards in hand)
    shuffles,   \* number of deck_shuffle calls made so far
    allocFails, \* number of malloc calls that returned NULL so far
    buffer,     \* local variable buffer of blackjack_turn (player branch)
    rpc,        \* position inside blackjack(): "none" when it is not running
    other,      \* in blackjack(): the hand that is not passed to the call
    round_i,    \* in blackjack(): the counter i of the opening deal loop
    player_score, \* local variable player_score of blackjack()
    dealer_score, \* local variable dealer_score of blackjack()
    outcome     \* what blackjack() announces

roundVars == <<rpc, other, round_i, player_score, dealer_score, outcome>>

vars == <<deck, cards, head, tail, hand, seed, op, ret, errno, pc, score,
          start, shuffles, allocFails, buffer, roundVars>>

-----------------------------------------------------------------------------
(* Bounds of the model *)
MaxPacks == 2        \* deck_gen is called with packs in 0..MaxPacks
MaxHandLen == 4      \* longest hand given to blackjack_score on its own
MaxKeep == 2         \* the caller deals to a hand of fewer than MaxKeep cards,
                     \* shuffles a deck that at most MaxKeep cards have left
                     \* and starts the player's turn on at most MaxKeep cards
MaxShuffles == 1     \* deck_shuffle calls per run
MaxAllocFail == 1    \* malloc failures per run
MaxRoundSeed == 3    \* a round of blackjack() starts from a seed in 0..MaxRoundSeed

-----------------------------------------------------------------------------
(* cards.h *)
STANDARD_DECK_SIZE == 52
BLACKJACK_INITIAL_DEAL == 2
ACE == 1
TEN == 10
JACK == 11
QUEEN == 12
KING == 13
SPADES == 0
DIAMONDS == 1
CLUBS == 2
HEARTS == 3

Rank == ACE..KING
Suit == SPADES..HEARTS
Card == [rank : Rank, suit : Suit]

NULL == <<>>

(* The generator states srand(time(NULL)) is followed from *)
Seeds == {0}

-----------------------------------------------------------------------------
(* blackjack_value with the Ace counted low *)
blackjack_value_AceLow(card) ==
    CASE card.rank = ACE -> 1
      [] card.rank \in {JACK, QUEEN, KING} -> 10
      [] card.rank \in 2..TEN -> card.rank
      [] OTHER -> -1

(* blackjack_value: Ace is high, court cards are 10, the rest face value *)
blackjack_value(card) ==
    CASE card.rank = ACE -> 11
      [] card.rank \in {JACK, QUEEN, KING} -> 10
      [] card.rank \in 2..TEN -> card.rank
      [] OTHER -> -1

(* The loop of blackjack_score with the inner for loop run once: a single  *)
(* Ace is lowered at an overshoot                                          *)
RECURSIVE ScoreLoop_OneReduction(_, _, _, _)
ScoreLoop_OneReduction(ptr, sc, n, aces) ==
    IF ptr = NULL
    THEN IF n = 2 /\ sc = 21 THEN 22 ELSE sc
    ELSE LET card_score == blackjack_value(Head(ptr))
             s1 == sc + card_score
             a1 == IF card_score = 11 THEN aces + 1 ELSE aces
             reduce == s1 > 21 /\ a1 > 0
             s2 == IF reduce THEN s1 - 10 ELSE s1
             a2 == IF reduce THEN a1 - 1 ELSE a1
         IN  IF s2 > 21 THEN 0
             ELSE ScoreLoop_OneReduction(Tail(ptr), s2, n + 1, a2)

(* The loop of blackjack_score with the aces counter left untouched by the *)
(* reduction, so the same Aces are reduced again at the next overshoot     *)
RECURSIVE ScoreLoop_KeepAces(_, _, _, _)
ScoreLoop_KeepAces(ptr, sc, n, aces) ==
    IF ptr = NULL
    THEN IF n = 2 /\ sc = 21 THEN 22 ELSE sc
    ELSE LET card_score == blackjack_value(Head(ptr))
             s1 == sc + card_score
             a1 == IF card_score = 11 THEN aces + 1 ELSE aces
             s2 == IF s1 > 21 /\ a1 > 0 THEN s1 - 10 * a1 ELSE s1
         IN  IF s2 > 21 THEN 0
             ELSE ScoreLoop_KeepAces(Tail(ptr), s2, n + 1, a1)

(* The loop of blackjack_score without the test cards == 2 *)
RECURSIVE ScoreLoop_AnyCount(_, _, _, _)
ScoreLoop_AnyCount(ptr, sc, n, aces) ==
    IF ptr = NULL
    THEN IF sc = 21 THEN 22 ELSE sc
    ELSE LET card_score == blackjack_value(Head(ptr))
             s1 == sc + card_score
             a1 == IF card_score = 11 THEN aces + 1 ELSE aces
             reduce == s1 > 21 /\ a1 > 0
             s2 == IF reduce THEN s1 - 10 * a1 ELSE s1
             a2 == IF reduce THEN 0 ELSE a1
         IN  IF s2 > 21 THEN 0
             ELSE ScoreLoop_AnyCount(Tail(ptr), s2, n + 1, a2)

(* One iteration of the for loop of blackjack_score per recursion step.    *)
(* ptr is the rest of the list; sc, n, aces are the locals score, cards,   *)
(* aces.                                                                   *)
RECURSIVE ScoreLoop(_, _, _, _)
ScoreLoop(ptr, sc, n, aces) ==
    IF ptr = NULL
    THEN IF n = 2 /\ sc = 21 THEN 22 ELSE sc
    ELSE LET card_score == blackjack_value(Head(ptr))
             s1 == sc + card_score
             a1 == IF card_score = 11 THEN aces + 1 ELSE aces
             reduce == s1 > 21 /\ a1 > 0
             \* the inner for loop runs aces times: score -= 10; aces--
             s2 == IF reduce THEN s1 - 10 * a1 ELSE s1
             a2 == IF reduce THEN 0 ELSE a1
         IN  IF s2 > 21 THEN 0 ELSE ScoreLoop(Tail(ptr), s2, n + 1, a2)

blackjack_score(h) ==
    IF h = NULL THEN -1 ELSE ScoreLoop(h, 0, 0, 0)

-----------------------------------------------------------------------------
(* deck_gen: the three nested loops, each one recursive operator giving    *)
(* the cards its remaining iterations write, in the order of index++       *)
(* The rank loop writing SPADES instead of the suit of the outer loop *)
RECURSIVE RankLoop_Spades(_, _)
RankLoop_Spades(suit, rank) ==
    IF rank <= KING
    THEN <<[rank |-> rank, suit |-> SPADES]>> \o RankLoop_Spades(suit, rank + 1)
    ELSE <<>>

RECURSIVE RankLoop(_, _)
RankLoop(suit, rank) ==
    IF rank <= KING
    THEN <<[rank |-> rank, suit |-> suit]>> \o RankLoop(suit, rank + 1)
    ELSE <<>>

(* The suit loop running from HEARTS down to SPADES *)
RECURSIVE SuitLoop_Descending(_)
SuitLoop_Descending(suit) ==
    IF suit <= HEARTS
    THEN SuitLoop_Descending(suit + 1) \o RankLoop(suit, ACE)
    ELSE <<>>

RECURSIVE SuitLoop(_)
SuitLoop(suit) ==
    IF suit <= HEARTS
    THEN RankLoop(suit, ACE) \o SuitLoop(suit + 1)
    ELSE <<>>

RECURSIVE PackLoop(_, _)
PackLoop(packs, i) ==
    IF i < packs
    THEN SuitLoop(SPADES) \o PackLoop(packs, i + 1)
    ELSE <<>>

(* The C array, indexed from 0 *)
ToArray(seq) == [idx \in 0..(Len(seq) - 1) |-> seq[idx + 1]]

GenCards(packs) == ToArray(PackLoop(packs, 0))

(* deck_size; (size_t)-1 is written -1 *)
deck_size(d, hd, tl) ==
    IF d = "NULL" THEN -1
    ELSE IF hd > tl THEN 0
    ELSE tl - hd + 1

(* rand(): a linear congruential generator stepping the hidden state *)
RandNext(sd) == (sd * 75 + 74) % 65537

(* One iteration of the for loop of deck_shuffle, on st = the array and    *)
(* the generator state                                                     *)
ShuffleIter(st, i) ==
    LET r == RandNext(st.seed)
        random_card == r % (i + 1)
        tmp_card == st.cards[i]
    IN  [cards |-> [st.cards EXCEPT ![i] = st.cards[random_card],
                                    ![random_card] = tmp_card],
         seed |-> r]

(* The for loop of deck_shuffle: the iterations i, i-1, .., hd+1 in that   *)
(* order.  The iterations above mid run first and give v, then those from  *)
(* mid down run on v; halving the range keeps the evaluation shallow.      *)
RECURSIVE ShuffleLoop(_, _, _)
ShuffleLoop(st, i, hd) ==
    IF i <= hd THEN st
    ELSE IF i = hd + 1 THEN ShuffleIter(st, i)
    ELSE LET mid == (i + hd) \div 2
         IN  CHOOSE res \in { ShuffleLoop(v, mid, hd) :
                                v \in {ShuffleLoop(st, i, mid)} } : TRUE

(* deal without deck->head += 1 *)
deal_NoAdvance(allocOK) ==
    IF deck = "NULL"
    THEN [head |-> head, hand |-> hand, ret |-> -1, errno |-> "EINVAL"]
    ELSE IF head > tail
    THEN [head |-> head, hand |-> hand, ret |-> -1, errno |-> "ENODATA"]
    ELSE IF ~allocOK
    THEN [head |-> head, hand |-> hand, ret |-> -1, errno |-> "ENOMEM"]
    ELSE [head |-> head, hand |-> <<cards[head]>> \o hand,
          ret |-> 0, errno |-> "0"]

(* deal: the state it leaves and the value it returns.  allocOK tells      *)
(* whether malloc(sizeof(Hand)) succeeds.                                  *)
deal(allocOK) ==
    IF deck = "NULL"
    THEN [head |-> head, hand |-> hand, ret |-> -1, errno |-> "EINVAL"]
    ELSE IF head > tail
    THEN [head |-> head, hand |-> hand, ret |-> -1, errno |-> "ENODATA"]
    ELSE IF ~allocOK
    THEN [head |-> head + 1, hand |-> hand, ret |-> -1, errno |-> "ENOMEM"]
    ELSE [head |-> head + 1, hand |-> <<cards[head]>> \o hand,
          ret |-> 0, errno |-> "0"]

(* malloc is reached by deal only with a deck that has a card left *)
MallocReached == deck # "NULL" /\ head <= tail

NoStart == [score |-> 0, head |-> 0, len |-> 0]

(* Nothing announced yet *)
NoOutcome == [winner |-> "none", blackjack |-> FALSE]

(* char buffer[3] before fgets has written it *)
Uninit == "uninit"

(* Outside blackjack_turn its locals do not exist *)
TurnIdle == pc' = "idle" /\ score' = 0 /\ start' = NoStart /\ buffer' = Uninit

-----------------------------------------------------------------------------
Init ==
    /\ deck = "NULL"
    /\ cards = <<>>
    /\ head = 0
    /\ tail = 0
    /\ hand = NULL
    /\ seed \in Seeds
    /\ op = "init"
    /\ ret = 0
    /\ errno = "0"
    /\ pc = "idle"
    /\ score = 0
    /\ start = NoStart
    /\ shuffles = 0
    /\ allocFails = 0
    /\ buffer = Uninit
    /\ rpc = "none"
    /\ other = NULL
    /\ round_i = 0
    /\ player_score = 0
    /\ dealer_score = 0
    /\ outcome = NoOutcome

(* deck = deck_gen(packs), called once while there is no deck; the pointer *)
(* it returns is written 0 for NULL and 1 for a deck                       *)
DeckGen(packs, allocOK) ==
    /\ pc = "idle"
    /\ deck = "NULL"
    /\ allocOK \/ allocFails < MaxAllocFail
    /\ op' = "deck_gen"
    /\ IF packs < 1
       THEN /\ errno' = "EINVAL"
            /\ ret' = 0
            /\ UNCHANGED <<deck, cards, head, tail, allocFails>>
       ELSE IF ~allocOK
       THEN /\ errno' = "ENOMEM"
            /\ ret' = 0
            /\ allocFails' = allocFails + 1
            /\ UNCHANGED <<deck, cards, head, tail>>
       ELSE /\ deck' = "DECK"
            /\ cards' = GenCards(packs)
            /\ head' = 0
            /\ tail' = STANDARD_DECK_SIZE * packs - 1
            /\ ret' = 1
            /\ errno' = "0"
            /\ UNCHANGED allocFails
    /\ TurnIdle
    /\ UNCHANGED <<hand, seed, shuffles, roundVars>>

(* deck_shuffle(deck) *)
DeckShuffle ==
    /\ pc = "idle"
    /\ shuffles < MaxShuffles
    /\ head <= MaxKeep
    /\ op' = "deck_shuffle"
    /\ shuffles' = shuffles + 1
    /\ IF deck = "NULL"
       THEN /\ errno' = "EINVAL"
            /\ ret' = -1
            /\ UNCHANGED <<cards, seed>>
       ELSE LET r == ShuffleLoop([cards |-> cards, seed |-> seed], tail, head)
            IN  /\ cards' = r.cards
                /\ seed' = r.seed
                /\ ret' = 0
                /\ errno' = "0"
    /\ TurnIdle
    /\ UNCHANGED <<deck, head, tail, hand, allocFails, roundVars>>

(* deal(deck, &hand) *)
Deal(allocOK) ==
    /\ pc = "idle"
    /\ Len(hand) < MaxKeep
    /\ allocOK \/ (MallocReached /\ allocFails < MaxAllocFail)
    /\ LET r == deal(allocOK)
       IN  /\ head' = r.head
           /\ hand' = r.hand
           /\ ret' = r.ret
           /\ errno' = r.errno
           /\ allocFails' = IF r.errno = "ENOMEM" /\ r.ret = -1 /\ ~allocOK
                            THEN allocFails + 1 ELSE allocFails
    /\ op' = "deal"
    /\ TurnIdle
    /\ UNCHANGED <<deck, cards, tail, seed, shuffles, roundVars>>

(* unload_hand(hand); hand = NULL: the caller drops the hand *)
UnloadHand ==
    /\ pc = "idle"
    /\ hand # NULL
    /\ hand' = NULL
    /\ op' = "unload_hand"
    /\ ret' = 0
    /\ errno' = "0"
    /\ TurnIdle
    /\ UNCHANGED <<deck, cards, head, tail, seed, shuffles, allocFails,
                   roundVars>>

-----------------------------------------------------------------------------
(* The dealer's loop condition with the threshold one too low *)
DealerMustHit_Below16(sc) == sc > 0 /\ sc < 16

(* while (score > 0 && score < 17) *)
DealerMustHit(sc) == sc > 0 /\ sc < 17

(* blackjack_turn(deck, &hand, 1): the dealer's branch, one action per     *)
(* position: entry, one iteration of the while loop, exit of the loop.     *)
DealerBegin ==
    /\ pc = "idle"
    /\ IF deck = "NULL"
       THEN /\ errno' = "EINVAL"
            /\ ret' = -1
            /\ op' = "blackjack_turn"
            /\ TurnIdle
       ELSE /\ score' = blackjack_score(hand)
            /\ errno' = IF hand = NULL THEN "EINVAL" ELSE "0"
            /\ start' = [score |-> blackjack_score(hand), head |-> head,
                         len |-> Len(hand)]
            /\ pc' = "loop"
            /\ op' = "blackjack_turn"
            /\ ret' = 0
            /\ UNCHANGED buffer
    /\ UNCHANGED <<deck, cards, head, tail, hand, seed, shuffles, allocFails,
                   roundVars>>

(* The loop body with the result of deal ignored: a failed deal does not   *)
(* end the turn                                                            *)
DealerHit_IgnoreFail(allocOK) ==
    /\ pc = "loop"
    /\ DealerMustHit(score)
    /\ allocOK \/ (MallocReached /\ allocFails < MaxAllocFail)
    /\ LET r == deal(allocOK)
       IN  /\ head' = r.head
           /\ hand' = r.hand
           /\ errno' = r.errno
           /\ allocFails' = IF MallocReached /\ ~allocOK
                            THEN allocFails + 1 ELSE allocFails
           /\ score' = IF r.ret < 0 THEN score ELSE blackjack_score(r.hand)
    /\ UNCHANGED <<deck, cards, tail, seed, shuffles, pc, op, ret, start,
                   buffer, roundVars>>

DealerHit(allocOK) ==
    /\ pc = "loop"
    /\ DealerMustHit(score)
    /\ allocOK \/ (MallocReached /\ allocFails < MaxAllocFail)
    /\ LET r == deal(allocOK)
       IN  /\ head' = r.head
           /\ hand' = r.hand
           /\ errno' = r.errno
           /\ allocFails' = IF MallocReached /\ ~allocOK
                            THEN allocFails + 1 ELSE allocFails
           /\ IF r.ret < 0
              THEN /\ ret' = -1
                   /\ op' = "blackjack_turn"
                   /\ pc' = "idle"
                   /\ UNCHANGED <<score, start>>
              ELSE /\ score' = blackjack_score(r.hand)
                   /\ UNCHANGED <<pc, op, ret, start>>
    /\ UNCHANGED <<deck, cards, tail, seed, shuffles, buffer, roundVars>>

DealerReturn ==
    /\ pc = "loop"
    /\ ~DealerMustHit(score)
    /\ ret' = score
    /\ op' = "blackjack_turn"
    /\ pc' = "idle"
    /\ UNCHANGED <<deck, cards, head, tail, hand, seed, errno, score, start,
                   shuffles, allocFails, buffer, roundVars>>

DealerStep == (\E allocOK \in BOOLEAN : DealerHit(allocOK)) \/ DealerReturn

Next ==
    \/ \E packs \in 0..MaxPacks, allocOK \in BOOLEAN : DeckGen(packs, allocOK)
    \/ DeckShuffle
    \/ \E allocOK \in BOOLEAN : Deal(allocOK)
    \/ UnloadHand
    \/ DealerBegin
    \/ \E allocOK \in BOOLEAN : DealerHit(allocOK)
    \/ DealerReturn

Spec == Init /\ [][Next]_vars

-----------------------------------------------------------------------------
(* blackjack_turn(deck, &hand, 0): the player's branch.                    *)

(* What strcmp compares the buffer with *)
Hit == "h\n"
Stick == "s\n"

(* What one fgets(buffer, 3, stdin) can store: at most two characters of   *)
(* the line.  "x\n" stands for every chunk that is neither token.  At end  *)
(* of input fgets stores nothing.                                          *)
Chunks == {Hit, Stick, "x\n"}
EOF == "EOF"
Inputs == Chunks \cup {EOF}

(* The buffer strcmp sees after fgets was given the input: when fgets      *)
(* stores nothing the buffer keeps what it held, and a buffer never        *)
(* written holds any bytes                                                 *)
BufferAfter(input) ==
    IF input # EOF THEN {input}
    ELSE IF buffer = Uninit THEN Chunks
    ELSE {buffer}

(* The condition of the do-while without the test of the score *)
PlayerContinues_IgnoreBust(stick, sc) == ~stick

(* while (!stick && score > 0) *)
PlayerContinues(stick, sc) == ~stick /\ sc > 0

(* Entry of the player's branch, up to the first prompt *)
PlayerBegin ==
    /\ pc = "idle"
    /\ Len(hand) <= MaxKeep
    /\ IF deck = "NULL"
       THEN /\ errno' = "EINVAL"
            /\ ret' = -1
            /\ op' = "blackjack_turn"
            /\ TurnIdle
       ELSE /\ score' = blackjack_score(hand)
            /\ errno' = IF hand = NULL THEN "EINVAL" ELSE "0"
            /\ start' = [score |-> blackjack_score(hand), head |-> head,
                         len |-> Len(hand)]
            /\ pc' = "prompt"
            /\ op' = "blackjack_turn"
            /\ ret' = 0
            /\ buffer' = Uninit
    /\ UNCHANGED <<deck, cards, head, tail, hand, seed, shuffles, allocFails,
                   roundVars>>

(* The body of the do-while after fgets, with b in the buffer: the         *)
(* three-way if, the loop condition and, when the loop is left, return     *)
(* score.  deal's result is not looked at.                                 *)
PlayerIter(b, allocOK) ==
    /\ pc = "prompt"
    /\ allocOK \/ (b = Hit /\ MallocReached /\ allocFails < MaxAllocFail)
    /\ IF b = Hit
       THEN LET r == deal(allocOK)
            IN  /\ head' = r.head
                /\ hand' = r.hand
                /\ errno' = IF r.hand = NULL THEN "EINVAL" ELSE r.errno
                /\ score' = blackjack_score(r.hand)
                /\ allocFails' = IF MallocReached /\ ~allocOK
                                 THEN allocFails + 1 ELSE allocFails
       ELSE UNCHANGED <<head, hand, errno, score, allocFails>>
    /\ IF PlayerContinues(b = Stick, score')
       THEN /\ buffer' = b
            /\ UNCHANGED <<pc, op, ret>>
       ELSE /\ pc' = "idle"
            /\ op' = "blackjack_turn"
            /\ ret' = score'
            /\ buffer' = Uninit
    /\ UNCHANGED <<deck, cards, tail, seed, shuffles, start, roundVars>>

(* One iteration of the do-while: fgets, whose result is not looked at,    *)
(* then the body                                                           *)
PlayerRead(input, allocOK) ==
    \E b \in BufferAfter(input) : PlayerIter(b, allocOK)

NextPlayer ==
    \/ \E packs \in 0..MaxPacks, allocOK \in BOOLEAN : DeckGen(packs, allocOK)
    \/ \E allocOK \in BOOLEAN : Deal(allocOK)
    \/ UnloadHand
    \/ PlayerBegin
    \/ \E input \in Inputs, allocOK \in BOOLEAN : PlayerRead(input, allocOK)

SpecPlayer == Init /\ [][NextPlayer]_vars

-----------------------------------------------------------------------------
(* The shoe shuffled as blackjack() shuffles it: right after deck_gen,    *)
(* before any card has been dealt                                          *)
ShuffleNew == head = 0 /\ op = "deck_gen" /\ DeckShuffle

(* The calls around the dealer's turn; the allocations that fail are those *)
(* made inside the turn                                                    *)
NextTurn ==
    \/ \E packs \in 0..MaxPacks : DeckGen(packs, TRUE)
    \/ ShuffleNew
    \/ Deal(TRUE)
    \/ UnloadHand
    \/ DealerBegin
    \/ \E allocOK \in BOOLEAN : DealerHit(allocOK)
    \/ DealerReturn

(* The dealer's turn is straight-line code: once entered it keeps running *)
FairSpec == Init /\ [][NextTurn]_vars /\ WF_vars(DealerStep)

-----------------------------------------------------------------------------
(* blackjack(): one round.  rpc is the call the round is at; op is         *)
(* "blackjack" while control is in blackjack() itself, between two calls.  *)
(* hand is the hand whose address the call at rpc is given, other is the   *)
(* second hand of the round.                                               *)

(* deck_gen(6) *)
ShoePacks == 6

(* The comparison with a tie given to the dealer *)
Outcome_DealerTakesTie(ps, ds) ==
    IF ps > ds THEN [winner |-> "Player", blackjack |-> ~(ps < 22)]
    ELSE [winner |-> "Dealer", blackjack |-> ~(ds < 22)]

(* The if / else if / else that announces the result *)
Outcome(ps, ds) ==
    IF ps > ds THEN [winner |-> "Player", blackjack |-> ~(ps < 22)]
    ELSE IF ds > ps THEN [winner |-> "Dealer", blackjack |-> ~(ds < 22)]
    ELSE [winner |-> "Draw", blackjack |-> FALSE]

InitRound ==
    /\ deck = "NULL"
    /\ cards = <<>>
    /\ head = 0
    /\ tail = 0
    /\ hand = NULL
    /\ seed \in 0..MaxRoundSeed
    /\ op = "blackjack"
    /\ ret = 0
    /\ errno = "0"
    /\ pc = "idle"
    /\ score = 0
    /\ start = NoStart
    /\ shuffles = 0
    /\ allocFails = 0
    /\ buffer = Uninit
    /\ rpc = "gen"
    /\ other = NULL
    /\ round_i = 0
    /\ player_score = 0
    /\ dealer_score = 0
    /\ outcome = NoOutcome

(* The calls blackjack() makes, each enabled at its place in the round *)
RoundDeckGen(allocOK) ==
    rpc = "gen" /\ op = "blackjack" /\ DeckGen(ShoePacks, allocOK)

RoundShuffle ==
    rpc = "shuffle" /\ op = "blackjack" /\ DeckShuffle

RoundDeal(allocOK) ==
    rpc \in {"deal_dealer", "deal_player"} /\ op = "blackjack" /\ Deal(allocOK)

RoundPlayerBegin ==
    rpc = "player" /\ op = "blackjack" /\ PlayerBegin

RoundDealerBegin ==
    rpc = "dealer" /\ op = "blackjack" /\ DealerBegin

(* unload_deck(shoe); unload_hand(dealer); unload_hand(player) *)
RoundFree ==
    /\ deck' = "NULL"
    /\ cards' = <<>>
    /\ head' = 0
    /\ tail' = 0
    /\ hand' = NULL
    /\ other' = NULL

(* return -1 after an error: everything is freed *)
RoundAbort ==
    /\ RoundFree
    /\ rpc' = "done"
    /\ UNCHANGED <<round_i, player_score, dealer_score, outcome>>

(* The code of blackjack() between the return of one call and the next     *)
(* call: the test of the result, the loop counter, the choice of the hand  *)
(* the next call is given.                                                 *)
RoundReturn ==
    /\ pc = "idle"
    /\ op # "blackjack"
    /\ rpc \in {"gen", "shuffle", "deal_dealer", "deal_player", "player",
                "dealer"}
    /\ op' = "blackjack"
    /\ ret' = 0
    /\ TurnIdle
    /\ CASE rpc = "gen" ->
              /\ rpc' = IF ret = 0 THEN "done" ELSE "shuffle"
              /\ UNCHANGED <<deck, cards, head, tail, hand, other, round_i,
                             player_score, dealer_score, outcome>>
         [] rpc = "shuffle" ->
              IF ret < 0 THEN RoundAbort
              ELSE /\ rpc' = "deal_dealer"
                   /\ round_i' = 0
                   /\ UNCHANGED <<deck, cards, head, tail, hand, other,
                                  player_score, dealer_score, outcome>>
         [] rpc = "deal_dealer" ->
              IF ret < 0 THEN RoundAbort
              ELSE /\ rpc' = "deal_player"
                   /\ hand' = other
                   /\ other' = hand
                   /\ UNCHANGED <<deck, cards, head, tail, round_i,
                                  player_score, dealer_score, outcome>>
         [] rpc = "deal_player" ->
              IF ret < 0 THEN RoundAbort
              ELSE /\ round_i' = round_i + 1
                   /\ IF round_i + 1 < BLACKJACK_INITIAL_DEAL
                      THEN /\ rpc' = "deal_dealer"
                           /\ hand' = other
                           /\ other' = hand
                      ELSE /\ rpc' = "player"
                           /\ UNCHANGED <<hand, other>>
                   /\ UNCHANGED <<deck, cards, head, tail, player_score,
                                  dealer_score, outcome>>
         [] rpc = "player" ->
              /\ player_score' = ret
              /\ rpc' = "dealer"
              /\ hand' = other
              /\ other' = hand
              /\ UNCHANGED <<deck, cards, head, tail, round_i, dealer_score,
                             outcome>>
         [] rpc = "dealer" ->
              /\ dealer_score' = ret
              /\ rpc' = "compare"
              /\ UNCHANGED <<deck, cards, head, tail, hand, other, round_i,
                             player_score, outcome>>
    /\ UNCHANGED <<seed, errno, shuffles, allocFails>>

(* The comparison of the two scores *)
RoundCompare ==
    /\ rpc = "compare"
    /\ outcome' = Outcome(player_score, dealer_score)
    /\ rpc' = "unload"
    /\ UNCHANGED <<deck, cards, head, tail, hand, seed, op, ret, errno, pc,
                   score, start, shuffles, allocFails, buffer, other, round_i,
                   player_score, dealer_score>>

(* Free memory; return 0 *)
RoundUnload ==
    /\ rpc = "unload"
    /\ RoundFree
    /\ rpc' = "done"
    /\ UNCHANGED <<seed, op, ret, errno, pc, score, start, shuffles,
                   allocFails, buffer, round_i, player_score, dealer_score,
                   outcome>>

NextRound ==
    \/ \E allocOK \in BOOLEAN : RoundDeckGen(allocOK)
    \/ RoundShuffle
    \/ \E allocOK \in BOOLEAN : RoundDeal(allocOK)
    \/ RoundPlayerBegin
    \/ \E input \in Inputs, allocOK \in BOOLEAN : PlayerRead(input, allocOK)
    \/ RoundDealerBegin
    \/ \E allocOK \in BOOLEAN : DealerHit(allocOK)
    \/ DealerReturn
    \/ RoundReturn
    \/ RoundCompare
    \/ RoundUnload

SpecRound == InitRound /\ [][NextRound]_vars

(* The comparison applied to every pair of values blackjack_turn returns *)
InitOutcome ==
    /\ deck = "NULL"
    /\ cards = <<>>
    /\ head = 0
    /\ tail = 0
    /\ hand = NULL
    /\ seed = 0
    /\ op = "blackjack"
    /\ ret = 0
    /\ errno = "0"
    /\ pc = "idle"
    /\ score = 0
    /\ start = NoStart
    /\ shuffles = 0
    /\ allocFails = 0
    /\ buffer = Uninit
    /\ rpc = "compare"
    /\ other = NULL
    /\ round_i = BLACKJACK_INITIAL_DEAL
    /\ player_score \in -1..22
    /\ dealer_score \in -1..22
    /\ outcome = NoOutcome

NextOutcome == RoundCompare

SpecOutcome == InitOutcome /\ [][NextOutcome]_vars

-----------------------------------------------------------------------------
(* blackjack_score applied to hands drawn from a bounded set *)
(* The scored hands are built from one card of each rank, repeats allowed  *)
(* (a shoe holds several packs), so every reordering of a scored hand is   *)
(* a scored hand too.                                                      *)
ScoreCard(rank) == [rank |-> rank, suit |-> rank % 4]

(* The hand whose cards have the ranks rs, in list order *)
HandOf(rs) == [i \in 1..Len(rs) |-> ScoreCard(rs[i])]

InitScore ==
    /\ deck = "NULL"
    /\ cards = <<>>
    /\ head = 0
    /\ tail = 0
    /\ \E n \in 0..MaxHandLen : \E rs \in [1..n -> Rank] : hand = HandOf(rs)
    /\ seed = 0
    /\ op = "init"
    /\ ret = 0
    /\ errno = "0"
    /\ pc = "idle"
    /\ score = 0
    /\ start = NoStart
    /\ shuffles = 0
    /\ allocFails = 0
    /\ buffer = Uninit
    /\ rpc = "none"
    /\ other = NULL
    /\ round_i = 0
    /\ player_score = 0
    /\ dealer_score = 0
    /\ outcome = NoOutcome

ScoreHand ==
    /\ op = "init"
    /\ op' = "blackjack_score"
    /\ ret' = blackjack_score(hand)
    /\ errno' = IF hand = NULL THEN "EINVAL" ELSE "0"
    /\ UNCHANGED <<deck, cards, head, tail, hand, seed, pc, score, start,
                   shuffles, allocFails, buffer, roundVars>>

NextScore == ScoreHand

SpecScore == InitScore /\ [][NextScore]_vars

-----------------------------------------------------------------------------
(* Vocabulary of the properties                                            *)

(* Point value of a card with the Ace counted high *)
PointValue(c) == IF c.rank = ACE THEN 11 ELSE IF c.rank >= TEN THEN 10 ELSE c.rank

RECURSIVE RawTotal(_)
RawTotal(h) == IF h = <<>> THEN 0 ELSE PointValue(Head(h)) + RawTotal(Tail(h))

NumAces(h) == Cardinality({i \in 1..Len(h) : h[i].rank = ACE})

(* Soft-ace reduction: one high Ace at a time while the total exceeds 21 *)
RECURSIVE SoftReduce(_, _)
SoftReduce(total, high) ==
    IF total > 21 /\ high > 0 THEN SoftReduce(total - 10, high - 1) ELSE total

(* The reference scoring algorithm *)
RefScore(h) ==
    LET total == SoftReduce(RawTotal(h), NumAces(h))
    IN  IF total > 21 THEN 0
        ELSE IF Len(h) = 2 /\ total = 21 THEN 22
        ELSE total

(* The cards of h in a canonical order: by rank, then by suit *)
SortKey(c) == 4 * c.rank + c.suit

RECURSIVE SortInsert(_, _)
SortInsert(c, sorted) ==
    IF sorted = <<>> THEN <<c>>
    ELSE IF SortKey(c) <= SortKey(Head(sorted)) THEN <<c>> \o sorted
    ELSE <<Head(sorted)>> \o SortInsert(c, Tail(sorted))

RECURSIVE SortHand(_)
SortHand(h) == IF h = <<>> THEN <<>> ELSE SortInsert(Head(h), SortHand(Tail(h)))

Scored == op = "blackjack_score" /\ hand # NULL

(* The hand holds exactly the ranks of rs, in some order *)
HasRanks(h, rs) ==
    /\ Len(h) = Len(rs)
    /\ \A r \in Rank : Cardinality({i \in 1..Len(h) : h[i].rank = r})
                       = Cardinality({i \in 1..Len(rs) : rs[i] = r})

-----------------------------------------------------------------------------
(* C1: for every non-empty hand, blackjack_score returns what the          *)
(* reference algorithm returns (all Aces high, then one reduction of 10 at *)
(* a time while the total exceeds 21 and a high Ace remains; 0 for a bust, *)
(* 22 for a two-card 21); {Ace, Ace, Nine} scores 21.                      *)
C1_ScoreIsReference == Scored => ret = RefScore(hand)

(* C6: the score does not depend on the order of the cards: every ordering *)
(* of a hand scores what the canonical ordering of the same cards scores.  *)
C6_OrderIndependent == Scored => ret = blackjack_score(SortHand(hand))

C6_Witness ==
    /\ Scored
    /\ Len(hand) >= 3
    /\ hand # SortHand(hand)
    /\ NumAces(hand) >= 2
    /\ ret > 0

(* C7, as stated: {Ace, Ace, Ace, Eight} scores 11 in every order *)
C7_AcesEightIs11 == (Scored /\ HasRanks(hand, <<ACE, ACE, ACE, 8>>)) => ret = 11

(* C7, amended: {Ace, Ace, Ace, Eight} scores 21 in every order (two of    *)
(* the three Aces are counted low)                                         *)
C7_AcesEightIs21 == (Scored /\ HasRanks(hand, <<ACE, ACE, ACE, 8>>)) => ret = 21

C7_Witness == Scored /\ HasRanks(hand, <<ACE, ACE, ACE, 8>>) /\ hand[1].rank = 8

(* C8: blackjack_score returns 22 exactly for the hands of two cards whose *)
(* total with Aces high is 21; no hand of three or more cards scores 22.   *)
C8_BlackjackIffNatural ==
    Scored => (ret = 22 <=> (Len(hand) = 2 /\ RawTotal(hand) = 21))

C8_Witness == Scored /\ ret = 22 /\ Len(hand) = 2 /\ hand[2].rank = ACE

-----------------------------------------------------------------------------
(* Vocabulary of the deck and turn properties                              *)

(* How many of the array positions hd..tl hold the card c *)
UndealtCount(arr, hd, tl, c) == Cardinality({i \in hd..tl : arr[i] = c})

(* A step that is one call of deal: from the caller or from the dealer's   *)
(* loop, and what the call returned                                        *)
IsDeal == \E allocOK \in BOOLEAN : Deal(allocOK)
IsDealerHit == \E allocOK \in BOOLEAN : DealerHit(allocOK)
DealCall == IsDeal \/ IsDealerHit
DealReturned0 == (IsDeal /\ ret' = 0) \/ (IsDealerHit /\ pc' = "loop")
DealReturnedErr == (IsDeal /\ ret' = -1) \/ (IsDealerHit /\ pc' = "idle" /\ ret' = -1)

(* blackjack_turn has scored the hand / has returned after scoring it *)
TurnRan == start # NoStart
TurnDone == TurnRan /\ pc = "idle" /\ op = "blackjack_turn"

-----------------------------------------------------------------------------
(* C2: deck_shuffle leaves the multiset of undealt cards (positions        *)
(* head..tail) unchanged.                                                  *)
C2_ShuffleKeepsUndealt ==
    [][(DeckShuffle /\ deck = "DECK") =>
         \A c \in Card : UndealtCount(cards', head', tail', c)
                         = UndealtCount(cards, head, tail, c)]_vars

(* C3: deal is atomic: it returns 0 with head advanced by one and the card *)
(* added to the hand, or -1 with deck and hand unchanged.                  *)
C3_DealAtomic ==
    [][DealCall =>
         \/ /\ DealReturned0
            /\ head' = head + 1
            /\ hand' = <<cards[head]>> \o hand
            /\ cards' = cards /\ tail' = tail
         \/ /\ DealReturnedErr
            /\ head' = head /\ hand' = hand
            /\ cards' = cards /\ tail' = tail]_vars

(* C4: deck_size drops by exactly 1 on every successful deal; deal on a    *)
(* deck of size 0 fails with ENODATA and leaves head, tail and the cards   *)
(* unchanged.                                                              *)
C4_DealCountsDown ==
    [][DealCall =>
         /\ DealReturned0 =>
              deck_size(deck', head', tail') = deck_size(deck, head, tail) - 1
         /\ (deck = "DECK" /\ deck_size(deck, head, tail) = 0) =>
              /\ DealReturnedErr
              /\ errno' = "ENODATA"
              /\ head' = head /\ tail' = tail /\ cards' = cards]_vars

C4_Witness ==
    /\ deck = "DECK" /\ op = "deal" /\ pc = "idle"
    /\ ret = -1 /\ errno = "ENODATA"
    /\ head = tail + 1
    /\ deck_size(deck, head, tail) = 0

(* C5: deck_gen(k) yields 52*k undealt cards, head = 0, each of the 52     *)
(* (rank, suit) combinations k times.                                      *)
C5_GenComplete ==
    [][\A k \in 1..MaxPacks :
         DeckGen(k, TRUE) =>
           /\ head' = 0
           /\ deck_size(deck', head', tail') = 52 * k
           /\ DOMAIN cards' = 0..(52 * k - 1)
           /\ \A c \in Card : UndealtCount(cards', head', tail', c) = k]_vars

C5_Witness ==
    /\ op = "deck_gen" /\ deck = "DECK" /\ ret = 1
    /\ head = 0 /\ tail = 2 * 52 - 1

(* C9, as stated: a dealer starting at 17..22 is dealt no card; a dealer   *)
(* starting at 1..16 with a non-empty deck is dealt at least one card; a   *)
(* turn that returns without error returns 0 or at least 17.               *)
C9_DealerPolicy ==
    /\ (TurnRan /\ start.score \in 17..22) =>
          (head = start.head /\ Len(hand) = start.len)
    /\ (TurnDone /\ start.score \in 1..16 /\ start.head <= tail) =>
          Len(hand) > start.len
    /\ (TurnDone /\ ret # -1) => (ret = 0 \/ ret >= 17)

(* C9, amended: as C9, but the dealer starting at 1..16 with a non-empty   *)
(* deck is dealt a card unless malloc fails in that deal, in which case    *)
(* the turn returns -1 (ENOMEM) with the hand unchanged.                   *)
C9_DealerPolicyAlloc ==
    /\ (TurnRan /\ start.score \in 17..22) =>
          (head = start.head /\ Len(hand) = start.len)
    /\ (TurnDone /\ start.score \in 1..16 /\ start.head <= tail) =>
          \/ Len(hand) > start.len
          \/ ret = -1 /\ errno = "ENOMEM" /\ Len(hand) = start.len
    /\ (TurnDone /\ ret # -1) => (ret = 0 \/ ret >= 17)

C9_Witness ==
    /\ TurnDone
    /\ start.score \in 1..16
    /\ Len(hand) >= start.len + 2
    /\ ret >= 17

(* C10: the dealer's turn always returns; it makes at most deck_size       *)
(* deals; with the deck exhausted and the score still below 17 it returns  *)
(* -1 with ENODATA.                                                        *)
C10_DealerTerminates ==
    /\ (pc = "loop") ~> (pc = "idle" /\ op = "blackjack_turn")
    /\ [](TurnRan =>
            head - start.head <= deck_size(deck, start.head, tail))
    /\ [][(pc = "loop" /\ DealerMustHit(score) /\ head > tail) =>
            (pc' = "idle" /\ op' = "blackjack_turn" /\ ret' = -1
             /\ errno' = "ENODATA" /\ head' = head /\ hand' = hand)]_vars

C10_Witness ==
    /\ TurnDone
    /\ start.score \in 1..16
    /\ score \in 1..16
    /\ Len(hand) > start.len
    /\ head = tail + 1
    /\ ret = -1 /\ errno = "ENODATA"

-----------------------------------------------------------------------------
(* Vocabulary of the player's turn                                         *)
IsPlayerRead(input) == \E allocOK \in BOOLEAN : PlayerRead(input, allocOK)
IsPlayerIter(b) == \E allocOK \in BOOLEAN : PlayerIter(b, allocOK)
PlayerTurnDone == TurnRan /\ pc = "idle" /\ op = "blackjack_turn"

(* C11: in the player turn every input other than the Hit token and the    *)
(* Stick token (another chunk of a line, or the end of the input) leaves   *)
(* the hand, the deck and the score unchanged, deals no card and does not  *)
(* end the turn.                                                           *)
C11_OtherInputIgnored ==
    [][\A input \in Inputs \ {Hit, Stick} :
         IsPlayerRead(input) =>
           /\ hand' = hand /\ head' = head /\ tail' = tail /\ cards' = cards
           /\ score' = score
           /\ pc' = "prompt"]_vars

C16_ExhaustedDeckReported ==
    [][(deck = "DECK" /\ head > tail /\ (IsPlayerIter(Hit) \/ IsDealerHit)) =>
         (pc' = "idle" /\ op' = "blackjack_turn" /\ ret' = -1)]_vars

-----------------------------------------------------------------------------
(* Vocabulary of the round                                                 *)
Compared == rpc = "unload" /\ player_score \in 0..22 /\ dealer_score \in 0..22

(* Points: a score of 1..21 *)
Points == 1..21

(* C13: for final scores in 0..22, Blackjack (22) beats every Points       *)
(* value, 21 included, Bust (0) loses to every nonzero score, the higher   *)
(* Points value wins, and equal scores, Bust against Bust included, are a  *)
(* Draw.                                                                   *)
C13_OutcomeRanking ==
    Compared =>
      /\ (player_score = 22 /\ dealer_score \in Points) =>
            outcome.winner = "Player"
      /\ (dealer_score = 22 /\ player_score \in Points) =>
            outcome.winner = "Dealer"
      /\ (player_score = 0 /\ dealer_score # 0) => outcome.winner = "Dealer"
      /\ (dealer_score = 0 /\ player_score # 0) => outcome.winner = "Player"
      /\ (player_score \in Points /\ dealer_score \in Points
            /\ player_score > dealer_score) => outcome.winner = "Player"
      /\ (player_score \in Points /\ dealer_score \in Points
            /\ dealer_score > player_score) => outcome.winner = "Dealer"
      /\ (player_score = dealer_score) => outcome.winner = "Draw"

C13_Witness ==
    /\ Compared
    /\ player_score = 0 /\ dealer_score = 0
    /\ outcome.winner = "Draw"

(* How many nodes of the list h hold the card c *)
HandCount(h, c) == Cardinality({n \in 1..Len(h) : h[n] = c})

(* The round is past the shuffle and no call of the opening deal has just  *)
(* failed                                                                  *)
RoundDealing ==
    /\ rpc \in {"deal_dealer", "deal_player", "player", "dealer", "compare",
                "unload"}
    /\ ~(rpc \in {"deal_dealer", "deal_player"} /\ op = "deal" /\ ret = -1)

(* C19: in a round of blackjack() the shoe is shuffled only at head = 0;   *)
(* from then on the two hands and the undealt cards of the shoe together   *)
(* hold every card exactly 6 times (312 cards); each hand holds two cards  *)
(* when the player's turn is called.                                       *)
C19_RoundConservesCards ==
    /\ [][DeckShuffle => head = 0]_vars
    /\ [](RoundDealing =>
            \A c \in Card :
               HandCount(hand, c) + HandCount(other, c)
                 + UndealtCount(cards, head, tail, c) = ShoePacks)
    /\ []((rpc = "player" /\ op = "blackjack") =>
            (Len(hand) = 2 /\ Len(other) = 2))

-----------------------------------------------------------------------------
(* C14: deck_shuffle touches only undealt cards: the array positions below *)
(* head, which hold the cards already dealt, are the same after the        *)
(* shuffle, so no dealt card comes back into head..tail.                   *)
C14_ShuffleSkipsDealt ==
    [][(DeckShuffle /\ deck = "DECK") =>
         \A idx \in 0..(head - 1) : cards'[idx] = cards[idx]]_vars

(* C15: the deck cursor: 0 <= head <= tail + 1 = 52*k, tail never changes, *)
(* and deck_size goes down by one on each successful deal and is changed   *)
(* by nothing else, so it stays within 0..52*k.                            *)
C15_CursorInvariant ==
    /\ [](deck = "DECK" =>
            /\ 0 <= head /\ head <= tail + 1
            /\ \E k \in 1..MaxPacks : tail + 1 = 52 * k
            /\ deck_size(deck, head, tail) \in 0..(tail + 1))
    /\ [][deck = "DECK" =>
            /\ tail' = tail
            /\ deck_size(deck', head', tail')
                 = deck_size(deck, head, tail)
                   - (IF DealCall /\ DealReturned0 THEN 1 ELSE 0)]_vars

(* The hand's total with every Ace counted as 1 *)
LowTotal(h) == RawTotal(h) - 10 * NumAces(h)

(* C17: blackjack_score returns 0 exactly for the hands whose total with   *)
(* every Ace counted as 1 exceeds 21; every other non-empty hand scores in *)
(* 1..22.                                                                  *)
C17_BustIffLowTotalOver21 ==
    Scored => /\ (ret = 0 <=> LowTotal(hand) > 21)
              /\ (LowTotal(hand) <= 21 => ret \in 1..22)

C17_Witness ==
    /\ Scored
    /\ ret = 0
    /\ NumAces(hand) >= 1
    /\ hand[Len(hand)].rank = ACE

(* The card deck_gen writes at an array index *)
NewDeckCard(idx) ==
    [rank |-> (idx % 13) + 1, suit |-> (idx % 52) \div 13]

====
